---- MODULE Spec2Model ----
(***************************************************************************)
(* Peer-review metrics: GitHubClient (gitclient/github.go) as the data     *)
(* source of CalculateMetrics (metrics package).  Instants and durations   *)
(* are whole minutes.  A Go pointer that may be nil is a sequence of       *)
(* length 0 (nil) or 1.  A *string is an address of Heap, so that pointer  *)
(* equality and text equality are different relations.                     *)
(***************************************************************************)
EXTENDS Integers, Sequences, FiniteSets, TLC

VARIABLES feed, quota, dateFrom, dateTo,
          apiRateUsed, apiRateRemaining,
          pc, page, allPRs, idx, reviewsRaw, comments, commits, cidx, errs,
          metrics, ret, calls, fin, fout

vars == <<feed, quota, dateFrom, dateTo, apiRateUsed, apiRateRemaining,
          pc, page, allPRs, idx, reviewsRaw, comments, commits, cidx, errs,
          metrics, ret, calls, fin, fout>>

----------------------------------------------------------------------------
(* Bounds of the model *)

\* pull requests in the feed of a whole run
MaxPRs == 2
\* pull requests in the feed of a GetPullRequests-only run
MaxFeedPRs == 5
\* pull requests on one page given to filterPullRequests
MaxPageLen == 3
\* creation instants of pull requests are 1..MaxTime
MaxTime == 4
\* page size asked of the server (ListOptions.PerPage, 50 in the code)
PerPage == 2
\* the small quotas a run may start with are 1..LowQuota
LowQuota == 2
\* a quota no run of the model exhausts
HighQuota == 5000
\* the window [dateFrom, dateTo] of a whole run
WindowFrom == 2
WindowTo == 3
\* reviews, review comments and commits of one pull request, files of one commit
MaxReviews == 2
MaxComments == 2
MaxCommits == 1
MaxFiles == 1

Logins == {"contributor1", "reviewer1"}

Range(s) == {s[i] : i \in DOMAIN s}

Min2(a, b) == IF a <= b THEN a ELSE b

\* all sequences over S of length at most n
SeqsUpTo(S, n) == UNION {[1..k -> S] : k \in 0..n}

----------------------------------------------------------------------------
(* The server: a feed of pull requests, newest first, served in pages *)

\* the feeds of at most n pull requests by the given authors, sorted by
\* createdAt descending; the newest pull request has the highest number
FeedsOf(authors, n) ==
    {[i \in DOMAIN s |-> [Number |-> Len(s) + 1 - i, UserLogin |-> s[i][2], CreatedAt |-> s[i][1]]] :
        s \in {t \in SeqsUpTo((1..MaxTime) \X authors, n) :
                  \A i \in 1..(Len(t) - 1) : t[i][1] >= t[i + 1][1]}}

Feeds(n) == FeedsOf(Logins, n)

\* the windows with dateFrom <= dateTo
Windows == {w \in (1..MaxTime) \X (1..MaxTime) : w[1] <= w[2]}

NumPages(f) == IF Len(f) = 0 THEN 1 ELSE (Len(f) + PerPage - 1) \div PerPage

\* the page the server returns for opts.Page = p (0 is the first page)
PageOf(f, p) ==
    LET q == IF p = 0 THEN 1 ELSE p
    IN  SubSeq(f, (q - 1) * PerPage + 1, Min2(q * PerPage, Len(f)))

\* resp.NextPage: 0 on the last page
NextPageOf(f, p) ==
    LET q == IF p = 0 THEN 1 ELSE p
    IN  IF q < NumPages(f) THEN q + 1 ELSE 0

----------------------------------------------------------------------------
(* filterPullRequests *)

RECURSIVE FilterScanUpperStrict(_, _, _, _, _)
\* FilterScan with a pull request created exactly at dateTo skipped
FilterScanUpperStrict(prs, from, to, i, st) ==
    IF i >= Len(prs) THEN st
    ELSE LET createdAt == prs[i + 1].CreatedAt
         IN  IF createdAt < from
             THEN [st EXCEPT !.foundBeforeDateFrom = TRUE]
             ELSE LET s1 == [st EXCEPT !.endIndex = i]
                  IN  IF createdAt >= to
                      THEN FilterScanUpperStrict(prs, from, to, i + 1, s1)
                      ELSE FilterScanUpperStrict(prs, from, to, i + 1,
                              [s1 EXCEPT !.found = TRUE,
                                         !.startIndex = IF s1.startIndex = -1 THEN i ELSE s1.startIndex])

RECURSIVE FilterScan(_, _, _, _, _)
\* the loop of filterPullRequests from 0-based index i on; st holds the locals
FilterScan(prs, from, to, i, st) ==
    IF i >= Len(prs) THEN st
    ELSE LET createdAt == prs[i + 1].CreatedAt
         IN  IF createdAt < from
             THEN [st EXCEPT !.foundBeforeDateFrom = TRUE]
             ELSE LET s1 == [st EXCEPT !.endIndex = i]
                  IN  IF createdAt > to
                      THEN FilterScan(prs, from, to, i + 1, s1)
                      ELSE FilterScan(prs, from, to, i + 1,
                              [s1 EXCEPT !.found = TRUE,
                                         !.startIndex = IF s1.startIndex = -1 THEN i ELSE s1.startIndex])

filterPullRequests(prs, from, to) ==
    IF Len(prs) = 0
    THEN [result |-> <<>>, found |-> FALSE, foundBeforeDateFrom |-> FALSE]
    ELSE LET st == FilterScan(prs, from, to, 0,
                      [startIndex |-> -1, endIndex |-> -1, found |-> FALSE, foundBeforeDateFrom |-> FALSE])
         IN  IF ~st.found
             THEN [result |-> <<>>, found |-> FALSE, foundBeforeDateFrom |-> st.foundBeforeDateFrom]
             ELSE [result |-> SubSeq(prs, st.startIndex + 1, st.endIndex + 1),
                   found |-> st.found,
                   foundBeforeDateFrom |-> st.foundBeforeDateFrom]

----------------------------------------------------------------------------
(* Conversions of the go-github values to the values of GitClient *)

(* mapSlice(input, transform) is [i \in DOMAIN input |-> transform(input[i])]: *)
(* the slices below are written that way.                                   *)

newPullRequest(pr) ==
    [Number |-> pr.Number, UserLogin |-> pr.UserLogin, CreatedAt |-> pr.CreatedAt]

newPullRequestSlice(rcs) == [i \in DOMAIN rcs |-> newPullRequest(rcs[i])]

\* a review without SubmittedAt becomes a nil *PullRequestReview
newPullRequestReview(prr) ==
    IF Len(prr.SubmittedAt) = 0
    THEN <<>>
    ELSE <<[ID |-> prr.ID, UserID |-> prr.UserID, UserLogin |-> prr.UserLogin,
            SubmittedAt |-> prr.SubmittedAt]>>

newPullRequestReviewSlice(prr) == [i \in DOMAIN prr |-> newPullRequestReview(prr[i])]

newPullRequestComment(prc) ==
    [PullRequestReviewID |-> prc.PullRequestReviewID, UserID |-> prc.UserID,
     Path |-> prc.Path, OriginalPosition |-> prc.OriginalPosition,
     CreatedAt |-> prc.CreatedAt]

newPullRequestCommentSlice(rcs) == [i \in DOMAIN rcs |-> newPullRequestComment(rcs[i])]

newRepositoryCommit(rc) ==
    [CreatedAt |-> rc.Date,
     Files |-> [i \in DOMAIN rc.Files |->
                   [Filename |-> rc.Files[i].Filename, Patch |-> rc.Files[i].Patch]]]

newRepositoryCommitSlice(rcs) == [i \in DOMAIN rcs |-> newRepositoryCommit(rcs[i])]

----------------------------------------------------------------------------
(* The rate counters of GitHubClient *)

\* verifyRateLimit with the error raised at a remaining quota of 1 already
verifyRateLimitAtOne(used, remaining, resp) ==
    IF Len(resp) = 0
    THEN [apiRateUsed |-> used + 1, apiRateRemaining |-> remaining,
          panic |-> TRUE, err |-> FALSE]
    ELSE [apiRateUsed |-> used + 1, apiRateRemaining |-> resp[1].Remaining,
          panic |-> FALSE, err |-> (resp[1].Remaining <= 1)]

\* verifyRateLimit on a response; resp is <<>> (nil) or <<[Remaining |-> r]>>.
\* A nil response is dereferenced after the call count has been increased.
verifyRateLimit(used, remaining, resp) ==
    IF Len(resp) = 0
    THEN [apiRateUsed |-> used + 1, apiRateRemaining |-> remaining,
          panic |-> TRUE, err |-> FALSE]
    ELSE [apiRateUsed |-> used + 1, apiRateRemaining |-> resp[1].Remaining,
          panic |-> FALSE, err |-> (resp[1].Remaining = 0)]

\* processError: errs with err appended when err is not nil (errs is never a
\* nil slice where it is called); err is <<>> (nil) or <<e>>
processError(err, errsIn) == IF Len(err) # 0 THEN errsIn \o err ELSE errsIn

(* One call of the go-github client.  "ok": a value, a response, no error. *)
(* "httpErr": the server answered with an error: a nil value, a response   *)
(* and an error.  "netErr": the request got no answer: a nil value, a nil  *)
(* response and an error.  An exhausted quota makes the server refuse.     *)
Outcomes(q) == IF q = 0 THEN {"httpErr", "netErr"} ELSE {"ok", "httpErr", "netErr"}

QuotaAfter(q, o) == IF o = "netErr" \/ q = 0 THEN q ELSE q - 1

RespOf(q, o) == IF o = "netErr" THEN <<>> ELSE <<[Remaining |-> QuotaAfter(q, o)]>>

\* the value of a call: one of vals when it succeeds, nil when it fails
Answers(o, vals) == IF o = "ok" THEN vals ELSE {<<>>}

----------------------------------------------------------------------------
(* Grouping *)

UserIdOf(login) == IF login = "reviewer1" THEN 11 ELSE 10

\* getUserReviews dereferences every element: a nil element is a nil
\* pointer dereference (review.SubmittedAt of a nil review)
getUserReviewsPanics(reviews) == \E i \in DOMAIN reviews : Len(reviews[i]) = 0

\* getUserReviews: login -> that login's submitted reviews, in input order
getUserReviews(reviews) ==
    LET submitted == SelectSeq(reviews,
                        LAMBDA r : Len(r) # 0 /\ Len(r[1].SubmittedAt) # 0)
        logins == {submitted[i][1].UserLogin : i \in DOMAIN submitted}
    IN  [u \in logins |->
            LET mine == SelectSeq(submitted, LAMBDA r : r[1].UserLogin = u)
            IN  [i \in DOMAIN mine |-> mine[i][1]]]

\* getReviewComments: (reviewID, userID) -> the comments, in input order
getReviewComments(cs) ==
    [key \in {<<cs[i].PullRequestReviewID, cs[i].UserID>> : i \in DOMAIN cs} |->
        SelectSeq(cs, LAMBDA c : <<c.PullRequestReviewID, c.UserID>> = key)]

\* reviewComments[reviewID][userID]: a missing key reads as a nil slice
MapGet(m, reviewID, userID) ==
    IF <<reviewID, userID>> \in DOMAIN m THEN m[<<reviewID, userID>>] ELSE <<>>

----------------------------------------------------------------------------
(* CalculateTotalCommentPeriodLength *)

\* minDuration
MinDuration == 3
\* the threshold between two periods, in minutes
PeriodThreshold == 30

RECURSIVE InsertSorted(_, _)
InsertSorted(s, t) ==
    IF Len(s) = 0 THEN <<t>>
    ELSE IF t < s[1] THEN <<t>> \o s
    ELSE <<s[1]>> \o InsertSorted(Tail(s), t)

RECURSIVE SortTimes(_)
\* sort.Slice by Before: the instants in ascending order
SortTimes(s) == IF Len(s) = 0 THEN <<>> ELSE InsertSorted(SortTimes(Tail(s)), s[1])

RECURSIVE PeriodScanBelowThreshold(_, _, _, _, _)
\* PeriodScan with a gap of exactly the threshold starting a new period
PeriodScanBelowThreshold(dateTimes, i, start, end, totalDuration) ==
    IF i > Len(dateTimes) THEN totalDuration + (end - start)
    ELSE LET diff == dateTimes[i] - dateTimes[i - 1]
         IN  IF diff < PeriodThreshold
             THEN PeriodScanBelowThreshold(dateTimes, i + 1, start, dateTimes[i], totalDuration)
             ELSE PeriodScanBelowThreshold(dateTimes, i + 1, dateTimes[i], dateTimes[i],
                                           totalDuration + (end - start))

RECURSIVE PeriodScan(_, _, _, _, _)
\* the loop over dateTimes from 1-based index i on
PeriodScan(dateTimes, i, start, end, totalDuration) ==
    IF i > Len(dateTimes) THEN totalDuration + (end - start)
    ELSE LET diff == dateTimes[i] - dateTimes[i - 1]
         IN  IF diff <= PeriodThreshold
             THEN PeriodScan(dateTimes, i + 1, start, dateTimes[i], totalDuration)
             ELSE PeriodScan(dateTimes, i + 1, dateTimes[i], dateTimes[i],
                             totalDuration + (end - start))

CalculateTotalCommentPeriodLength(reviewComments, reviewSubmittedAt) ==
    IF Len(reviewComments) = 0 THEN MinDuration
    ELSE LET dateTimes == SortTimes(<<reviewSubmittedAt>> \o
                              [i \in DOMAIN reviewComments |-> reviewComments[i].CreatedAt])
             totalDuration == PeriodScan(dateTimes, 2, dateTimes[1], dateTimes[1], 0)
         IN  IF totalDuration <= MinDuration THEN MinDuration ELSE totalDuration

----------------------------------------------------------------------------
(* isCommentAddressedByCommit *)

(* The strings behind the *string fields.  Addresses 1 and 2 hold the same *)
(* text in two allocations, address 3 holds another text.                  *)
Heap == <<"file.go", "file.go", "other.go">>

Addrs == DOMAIN Heap

DigitChars == <<"0", "1", "2", "3", "4", "5", "6", "7", "8", "9">>

RECURSIVE Itoa(_)
\* the decimal digits of n >= 0, as fmt's %d prints them
Itoa(n) == IF n < 10 THEN <<DigitChars[n + 1]>>
           ELSE Itoa(n \div 10) \o <<DigitChars[(n % 10) + 1]>>

\* fmt.Sprintf("@@ -%d", n)
HunkPrefix(n) == <<"@", "@", " ", "-">> \o Itoa(n)

\* strings.Contains
Contains(s, substr) ==
    \E i \in 0..(Len(s) - Len(substr)) : SubSeq(s, i + 1, i + Len(substr)) = substr

\* Filename and Path are *string: == compares the two pointers
isCommentAddressedByCommit(comment, commit) ==
    \E i \in DOMAIN commit.Files :
        /\ commit.Files[i].Filename = comment.Path
        /\ commit.Files[i].Patch # <<>>
        /\ Contains(commit.Files[i].Patch, HunkPrefix(comment.OriginalPosition))

\* the loops over comments and commits: the number of comments that some
\* commit created after the comment addresses
commentsLeadingToChanges(cs, cms) ==
    Cardinality({i \in DOMAIN cs :
        \E j \in DOMAIN cms :
            /\ cms[j].CreatedAt > cs[i].CreatedAt
            /\ isCommentAddressedByCommit(cs[i], cms[j])})

----------------------------------------------------------------------------
(* float64 values: exact fractions n/d with d > 0, NaN (0/0) and Inf (x/0) *)

RECURSIVE GCD(_, _)
GCD(a, b) == IF b = 0 THEN a ELSE GCD(b, a % b)

Frac(n, d) == LET g == GCD(n, d) IN [k |-> "num", n |-> n \div g, d |-> d \div g]

NaN == [k |-> "nan", n |-> 0, d |-> 1]

Inf == [k |-> "inf", n |-> 0, d |-> 1]

\* float64(i) of an integer i >= 0
Float(i) == [k |-> "num", n |-> i, d |-> 1]

FDiv(x, y) ==
    IF x.k = "nan" \/ y.k = "nan" THEN NaN
    ELSE IF x.k = "inf" THEN IF y.k = "inf" THEN NaN ELSE Inf
    ELSE IF y.k = "inf" THEN Float(0)
    ELSE IF y.n = 0 THEN IF x.n = 0 THEN NaN ELSE Inf
    ELSE Frac(x.n * y.d, x.d * y.n)

FMul(x, y) ==
    IF x.k = "nan" \/ y.k = "nan" THEN NaN
    ELSE IF x.k = "inf" \/ y.k = "inf"
         THEN IF (x.k = "num" /\ x.n = 0) \/ (y.k = "num" /\ y.n = 0) THEN NaN ELSE Inf
    ELSE Frac(x.n * y.n, x.d * y.d)

\* Go's integer division truncates toward zero
TruncDiv(a, b) == IF a >= 0 THEN a \div b ELSE -((-a) \div b)

----------------------------------------------------------------------------
(* CalculateMetrics: the accumulation of one pull request *)

\* &ContributorMetrics{}
ZeroMetrics ==
    [PRsReviewed |-> 0, TotalComments |-> 0, AverageCommentsPerReview |-> Float(0),
     AverageTimeToFirstReview |-> 0, AverageTimeToCompleteReview |-> 0,
     TotalLinesReviewed |-> 0, AverageLinesReviewed |-> Float(0),
     PercentageCommentsLeadingToChanges |-> Float(0)]

RECURSIVE ReviewLoop(_, _, _, _, _, _, _)
\* the loop over one user's reviews of the pull request, from index i on
ReviewLoop(um, reviews, i, pr, reviewComments, cs, cms) ==
    IF i > Len(reviews) THEN um
    ELSE LET review == reviews[i]
             mine == MapGet(reviewComments, review.ID, review.UserID)
         IN  ReviewLoop(
                 [um EXCEPT
                     !.AverageTimeToFirstReview = @ + (review.SubmittedAt[1] - pr.CreatedAt),
                     !.AverageTimeToCompleteReview =
                         @ + CalculateTotalCommentPeriodLength(mine, review.SubmittedAt[1]),
                     !.TotalComments = @ + Len(mine),
                     !.PercentageCommentsLeadingToChanges =
                         Float(commentsLeadingToChanges(cs, cms))],
                 reviews, i + 1, pr, reviewComments, cs, cms)

\* AccumulateUser without the test that the user is not the author
AccumulateUserAnyAuthor(m, user, reviews, pr, reviewComments, cs, cms) ==
    LET um == IF user \in DOMAIN m THEN m[user] ELSE ZeroMetrics
        counted == [um EXCEPT !.PRsReviewed = @ + 1]
        after == ReviewLoop(counted, reviews, 1, pr, reviewComments, cs, cms)
    IN  [u \in (DOMAIN m) \cup {user} |-> IF u = user THEN after ELSE m[u]]

\* AccumulateUser with the pull request counted once for every review
AccumulateUserPerReview(m, user, reviews, pr, reviewComments, cs, cms) ==
    IF user # pr.UserLogin
    THEN LET um == IF user \in DOMAIN m THEN m[user] ELSE ZeroMetrics
             counted == [um EXCEPT !.PRsReviewed = @ + Len(reviews)]
             after == ReviewLoop(counted, reviews, 1, pr, reviewComments, cs, cms)
         IN  [u \in (DOMAIN m) \cup {user} |-> IF u = user THEN after ELSE m[u]]
    ELSE m

\* the body of "for user, reviews := range userReviews" for one user
AccumulateUser(m, user, reviews, pr, reviewComments, cs, cms) ==
    IF user # pr.UserLogin
    THEN LET um == IF user \in DOMAIN m THEN m[user] ELSE ZeroMetrics
             counted == [um EXCEPT !.PRsReviewed = @ + 1]
             after == ReviewLoop(counted, reviews, 1, pr, reviewComments, cs, cms)
         IN  [u \in (DOMAIN m) \cup {user} |-> IF u = user THEN after ELSE m[u]]
    ELSE m

RECURSIVE AccumulateUsers(_, _, _, _, _, _, _)
\* the range over userReviews; the users' entries are independent of one
\* another, so the map's iteration order does not show in the result
AccumulateUsers(m, users, userReviews, pr, reviewComments, cs, cms) ==
    IF users = {} THEN m
    ELSE LET user == CHOOSE u \in users : TRUE
         IN  AccumulateUsers(
                 AccumulateUser(m, user, userReviews[user], pr, reviewComments, cs, cms),
                 users \ {user}, userReviews, pr, reviewComments, cs, cms)

\* lines 61 to 108 for one pull request; reviews is the slice GetReviews gave
AccumulatePR(m, pr, reviews, cs, cms) ==
    LET userReviews == getUserReviews(reviews)
    IN  AccumulateUsers(m, DOMAIN userReviews, userReviews, pr,
                        getReviewComments(cs), cs, cms)

\* the final calculations for one contributor
FinalizeUser(um) ==
    LET avg == IF um.PRsReviewed > 0
               THEN [um EXCEPT
                       !.AverageCommentsPerReview =
                           FDiv(Float(um.TotalComments), Float(um.PRsReviewed)),
                       !.AverageTimeToFirstReview = TruncDiv(@, um.PRsReviewed),
                       !.AverageTimeToCompleteReview = TruncDiv(@, um.PRsReviewed),
                       !.AverageLinesReviewed =
                           FDiv(Float(um.TotalLinesReviewed), Float(um.PRsReviewed))]
               ELSE um
    IN  IF avg.TotalComments > 0
        THEN [avg EXCEPT !.PercentageCommentsLeadingToChanges =
                 FDiv(@, FMul(FDiv(@, Float(avg.TotalComments)), Float(100)))]
        ELSE avg

FinalizeMetrics(m) == [u \in DOMAIN m |-> FinalizeUser(m[u])]

----------------------------------------------------------------------------
(* What the server may answer in a whole run *)

ReviewTimes == {10}
CommentTimes == {5, 50}
CommitTimes == {20}

\* "@@ -10,7 +10,9 @@"
Patch10 == <<"@", "@", " ", "-", "1", "0", ",", "7", " ", "+", "1", "0", ",", "9", " ", "@", "@">>

\* the review lists of one pull request: review i has ID i, and a review is
\* submitted or not
ReviewLists ==
    {[i \in DOMAIN s |-> [ID |-> i, UserID |-> UserIdOf(s[i][1]), UserLogin |-> s[i][1],
                          SubmittedAt |-> s[i][2]]] :
        s \in SeqsUpTo(Logins \X ({<<>>} \cup {<<t>> : t \in ReviewTimes}), MaxReviews)}

\* the author of review reviewID among the fetched reviews
ReviewAuthorId(reviews, reviewID) ==
    IF \E i \in DOMAIN reviews : Len(reviews[i]) # 0 /\ reviews[i][1].ID = reviewID
    THEN LET i == CHOOSE i \in DOMAIN reviews : Len(reviews[i]) # 0 /\ reviews[i][1].ID = reviewID
         IN  reviews[i][1].UserID
    ELSE UserIdOf("reviewer1")

\* the comment lists of one pull request, in any order: every comment is
\* written by the author of its review, on "file.go" at position 10
CommentLists(reviews) ==
    {[i \in DOMAIN s |-> [PullRequestReviewID |-> s[i][1],
                          UserID |-> ReviewAuthorId(reviews, s[i][1]),
                          Path |-> 1, OriginalPosition |-> 10, CreatedAt |-> s[i][2]]] :
        s \in SeqsUpTo((1..MaxReviews) \X CommentTimes, MaxComments)}

\* the commit lists of one pull request: the list call gives no files
CommitLists ==
    {[i \in DOMAIN s |-> [Date |-> s[i], Files |-> <<>>]] :
        s \in SeqsUpTo(CommitTimes, MaxCommits)}

\* the files of one commit: "file.go" at the comment's address or at another
FileLists ==
    SeqsUpTo([Filename : {1, 2}, Patch : {Patch10}], MaxFiles)

----------------------------------------------------------------------------
(* The run of CalculateMetrics on a GitHubClient *)

EmptyMap == [u \in {} |-> ZeroMetrics]

NoResult == [isNil |-> TRUE, metrics |-> EmptyMap, errs |-> <<>>]

\* ErrorResult with the sums so far returned beside the errors
ErrorResultPartial(m, e) == [isNil |-> FALSE, metrics |-> m, errs |-> e]

\* "return nil, []error{err}" and "return nil, errs": no map beside the errors
ErrorResult(m, e) == [isNil |-> TRUE, metrics |-> EmptyMap, errs |-> e]

\* the final calculations and "return metrics, nil"
SuccessResult(m) == [isNil |-> FALSE, metrics |-> FinalizeMetrics(m), errs |-> <<>>]

\* LoopExits with a page without a match ending the loop as well
LoopExitsNoMatch(nextPage, f) == nextPage = 0 \/ f.foundBeforeDateFrom \/ ~f.found

\* LoopExits with the last page alone ending the loop
LoopExitsLastPage(nextPage, f) == nextPage = 0

\* the exit of the loop of GetPullRequests after a page with filter result f
LoopExits(nextPage, f) == nextPage = 0 \/ f.foundBeforeDateFrom

\* one call of an operation of GitClient: its arguments, and what it returned
CallRec(op, pr, since, includeFiles) ==
    [op |-> op, pr |-> pr, since |-> since, includeFiles |-> includeFiles, errs |-> <<>>,
     result |-> <<>>]

\* the log with the errors its last call reported
Reported(log, e) == [log EXCEPT ![Len(log)].errs = e]

\* the log with the slice its last call returned
Returned(log, v) == [log EXCEPT ![Len(log)].result = v]

\* the since-timestamp with the last comment of the list taken
FirstCommentTimeOfLast(cs) == cs[Len(cs)].CreatedAt

\* *comments[0].CreatedAt: the since-timestamp CalculateMetrics gives GetCommits
FirstCommentTime(cs) == cs[1].CreatedAt

\* the first commit from index i on whose files GetCommits fetches; 0 if none
NextDetail(cms, i, firstCommentTime, includeFiles) ==
    LET need == {j \in i..Len(cms) : cms[j].Date > firstCommentTime /\ includeFiles}
    IN  IF need = {} THEN 0 ELSE CHOOSE j \in need : \A h \in need : j <= h

Init ==
    /\ feed \in Feeds(MaxPRs)
    /\ quota \in (1..LowQuota) \cup {HighQuota}
    /\ dateFrom = WindowFrom
    /\ dateTo = WindowTo
    /\ apiRateUsed = 1
    /\ apiRateRemaining = 0
    /\ pc = "GetPullRequests"
    /\ page = 0
    /\ allPRs = <<>>
    /\ idx = 0
    /\ reviewsRaw = <<>>
    /\ comments = <<>>
    /\ commits = <<>>
    /\ cidx = 0
    /\ errs = <<>>
    /\ metrics = EmptyMap
    /\ ret = NoResult
    /\ calls = <<>>
    /\ fin = <<>>
    /\ fout = <<>>

\* one iteration of the loop of GetPullRequests, and what follows its return
FetchPage(o) ==
    /\ pc = "GetPullRequests"
    /\ LET v == verifyRateLimit(apiRateUsed, apiRateRemaining, RespOf(quota, o))
           log == IF page = 0
                  THEN Append(calls, CallRec("GetPullRequests", 0, -1, FALSE))
                  ELSE calls
           f == filterPullRequests(PageOf(feed, page), dateFrom, dateTo)
           all == IF f.found THEN allPRs \o newPullRequestSlice(f.result) ELSE allPRs
           next == NextPageOf(feed, page)
       IN  /\ apiRateUsed' = v.apiRateUsed
           /\ apiRateRemaining' = v.apiRateRemaining
           /\ quota' = QuotaAfter(quota, o)
           /\ IF v.panic
              THEN /\ pc' = "panic"
                   /\ calls' = log
                   /\ UNCHANGED <<page, allPRs, idx, ret>>
              ELSE IF o = "httpErr"
              THEN /\ pc' = "done"
                   /\ ret' = ErrorResult(metrics, <<"PullRequests.List">>)
                   /\ calls' = Reported(log, <<"PullRequests.List">>)
                   /\ UNCHANGED <<page, allPRs, idx>>
              ELSE /\ allPRs' = all
                   /\ calls' = log
                   /\ IF LoopExits(next, f)
                      THEN /\ page' = page
                           /\ idx' = IF Len(all) > 0 THEN 1 ELSE 0
                           /\ pc' = IF Len(all) > 0 THEN "GetReviews" ELSE "done"
                           /\ ret' = IF Len(all) > 0 THEN ret ELSE SuccessResult(metrics)
                      ELSE /\ page' = next
                           /\ idx' = idx
                           /\ pc' = pc
                           /\ ret' = ret
    /\ UNCHANGED <<feed, dateFrom, dateTo, reviewsRaw, comments, commits, cidx, errs,
                   metrics, fin, fout>>

\* GetReviews for the current pull request, then getUserReviews
GetReviews(o, raw) ==
    /\ pc = "GetReviews"
    /\ LET v == verifyRateLimit(apiRateUsed, apiRateRemaining, RespOf(quota, o))
           log == Append(calls, CallRec("GetReviews", allPRs[idx].Number, -1, FALSE))
           reviews == newPullRequestReviewSlice(raw)
       IN  /\ apiRateUsed' = v.apiRateUsed
           /\ apiRateRemaining' = v.apiRateRemaining
           /\ quota' = QuotaAfter(quota, o)
           /\ IF v.panic
              THEN /\ pc' = "panic"
                   /\ calls' = log
                   /\ UNCHANGED <<reviewsRaw, ret>>
              ELSE IF o = "httpErr"
              THEN /\ pc' = "done"
                   /\ ret' = ErrorResult(metrics, <<"ListReviews">>)
                   /\ calls' = Reported(log, <<"ListReviews">>)
                   /\ UNCHANGED reviewsRaw
              ELSE /\ reviewsRaw' = reviews
                   /\ calls' = Returned(log, reviews)
                   /\ ret' = ret
                   /\ pc' = IF getUserReviewsPanics(reviews) THEN "panic" ELSE "GetComments"
    /\ UNCHANGED <<feed, dateFrom, dateTo, page, allPRs, idx, comments, commits, cidx, errs,
                   metrics, fin, fout>>

\* GetComments for the current pull request
GetComments(o, raw) ==
    /\ pc = "GetComments"
    /\ LET v == verifyRateLimit(apiRateUsed, apiRateRemaining, RespOf(quota, o))
           log == Append(calls, CallRec("GetComments", allPRs[idx].Number, -1, FALSE))
           cs == newPullRequestCommentSlice(raw)
       IN  /\ apiRateUsed' = v.apiRateUsed
           /\ apiRateRemaining' = v.apiRateRemaining
           /\ quota' = QuotaAfter(quota, o)
           /\ IF v.panic
              THEN /\ pc' = "panic"
                   /\ calls' = log
                   /\ UNCHANGED <<comments, ret>>
              ELSE IF o = "httpErr"
              THEN /\ pc' = "done"
                   /\ ret' = ErrorResult(metrics, <<"ListComments">>)
                   /\ calls' = Reported(log, <<"ListComments">>)
                   /\ UNCHANGED comments
              ELSE /\ comments' = cs
                   /\ calls' = log
                   /\ ret' = ret
                   /\ pc' = IF Len(cs) > 0 THEN "GetCommits" ELSE "Accumulate"
    /\ UNCHANGED <<feed, dateFrom, dateTo, page, allPRs, idx, reviewsRaw, commits, cidx, errs,
                   metrics, fin, fout>>

\* GetCommits for the current pull request: the list call, up to the first
\* per-commit call or to the return
GetCommits(o, raw) ==
    /\ pc = "GetCommits"
    /\ LET v == verifyRateLimit(apiRateUsed, apiRateRemaining, RespOf(quota, o))
           firstCommentTime == FirstCommentTime(comments)
           log == Append(calls, CallRec("GetCommits", allPRs[idx].Number, firstCommentTime, TRUE))
           es == processError(IF o = "ok" THEN <<>> ELSE <<"ListCommits">>, <<>>)
           cms == IF o = "ok" THEN raw ELSE <<>>
           d == NextDetail(cms, 1, firstCommentTime, TRUE)
       IN  /\ apiRateUsed' = v.apiRateUsed
           /\ apiRateRemaining' = v.apiRateRemaining
           /\ quota' = QuotaAfter(quota, o)
           /\ IF v.panic
              THEN /\ pc' = "panic"
                   /\ calls' = log
                   /\ UNCHANGED <<commits, cidx, errs, ret>>
              ELSE IF d # 0
              THEN /\ pc' = "GetCommitDetail"
                   /\ commits' = cms
                   /\ cidx' = d
                   /\ errs' = es
                   /\ calls' = log
                   /\ ret' = ret
              ELSE /\ commits' = newRepositoryCommitSlice(cms)
                   /\ cidx' = 0
                   /\ errs' = es
                   /\ calls' = Reported(log, es)
                   /\ IF Len(es) > 0
                      THEN /\ pc' = "done"
                           /\ ret' = ErrorResult(metrics, es)
                      ELSE /\ pc' = "Accumulate"
                           /\ ret' = ret
    /\ UNCHANGED <<feed, dateFrom, dateTo, page, allPRs, idx, reviewsRaw, comments,
                   metrics, fin, fout>>

\* GetCommits: the call for the files of commit cidx, up to the next such
\* call or to the return.  A failed call gives a nil detailedCommit, whose
\* Files are read all the same.
GetCommitDetail(o, files) ==
    /\ pc = "GetCommitDetail"
    /\ LET v == verifyRateLimit(apiRateUsed, apiRateRemaining, RespOf(quota, o))
           firstCommentTime == FirstCommentTime(comments)
           es == processError(IF o = "ok" THEN <<>> ELSE <<"GetCommit">>, errs)
           cms == [commits EXCEPT ![cidx].Files = files]
           d == NextDetail(cms, cidx + 1, firstCommentTime, TRUE)
       IN  /\ apiRateUsed' = v.apiRateUsed
           /\ apiRateRemaining' = v.apiRateRemaining
           /\ quota' = QuotaAfter(quota, o)
           /\ IF v.panic
              THEN /\ pc' = "panic"
                   /\ UNCHANGED <<commits, cidx, errs, calls, ret>>
              ELSE IF o = "httpErr"
              THEN /\ pc' = "panic"
                   /\ errs' = es
                   /\ UNCHANGED <<commits, cidx, calls, ret>>
              ELSE IF d # 0
              THEN /\ pc' = "GetCommitDetail"
                   /\ commits' = cms
                   /\ cidx' = d
                   /\ errs' = es
                   /\ UNCHANGED <<calls, ret>>
              ELSE /\ commits' = newRepositoryCommitSlice(cms)
                   /\ cidx' = 0
                   /\ errs' = es
                   /\ calls' = Reported(calls, es)
                   /\ IF Len(es) > 0
                      THEN /\ pc' = "done"
                           /\ ret' = ErrorResult(metrics, es)
                      ELSE /\ pc' = "Accumulate"
                           /\ ret' = ret
    /\ UNCHANGED <<feed, dateFrom, dateTo, page, allPRs, idx, reviewsRaw, comments,
                   metrics, fin, fout>>

\* Accumulate with the reviews of the next pull request not fetched
AccumulateSkipsReviews ==
    /\ pc = "Accumulate"
    /\ metrics' = AccumulatePR(metrics, allPRs[idx], reviewsRaw, comments, commits)
    /\ reviewsRaw' = <<>>
    /\ comments' = <<>>
    /\ commits' = <<>>
    /\ errs' = <<>>
    /\ IF idx < Len(allPRs)
       THEN idx' = idx + 1 /\ pc' = "GetComments" /\ ret' = ret
       ELSE idx' = idx /\ pc' = "done" /\ ret' = SuccessResult(metrics')
    /\ UNCHANGED <<feed, quota, dateFrom, dateTo, apiRateUsed, apiRateRemaining, page,
                   allPRs, cidx, calls, fin, fout>>

\* the loop over userReviews for the current pull request; the next pull
\* request starts with fresh locals.  After the last pull request the final
\* calculations follow and CalculateMetrics returns: metrics keeps the sums
\* as the loop left them, ret.metrics is the map after the final calculations.
Accumulate ==
    /\ pc = "Accumulate"
    /\ metrics' = AccumulatePR(metrics, allPRs[idx], reviewsRaw, comments, commits)
    /\ reviewsRaw' = <<>>
    /\ comments' = <<>>
    /\ commits' = <<>>
    /\ errs' = <<>>
    /\ IF idx < Len(allPRs)
       THEN idx' = idx + 1 /\ pc' = "GetReviews" /\ ret' = ret
       ELSE idx' = idx /\ pc' = "done" /\ ret' = SuccessResult(metrics')
    /\ UNCHANGED <<feed, quota, dateFrom, dateTo, apiRateUsed, apiRateRemaining, page,
                   allPRs, cidx, calls, fin, fout>>

Next ==
    \/ \E o \in Outcomes(quota) : FetchPage(o)
    \/ \E o \in Outcomes(quota) : \E raw \in Answers(o, ReviewLists) : GetReviews(o, raw)
    \/ /\ pc = "GetComments"
       /\ \E o \in Outcomes(quota) : \E raw \in Answers(o, CommentLists(reviewsRaw)) :
              GetComments(o, raw)
    \/ \E o \in Outcomes(quota) : \E raw \in Answers(o, CommitLists) : GetCommits(o, raw)
    \/ \E o \in Outcomes(quota) : \E files \in Answers(o, FileLists) : GetCommitDetail(o, files)
    \/ Accumulate

Spec == Init /\ [][Next]_vars

----------------------------------------------------------------------------
(* GetPullRequests alone, on longer feeds and every window *)

InitPRs ==
    /\ feed \in FeedsOf({"contributor1"}, MaxFeedPRs)
    /\ quota \in (1..LowQuota) \cup {HighQuota}
    /\ \E w \in Windows : dateFrom = w[1] /\ dateTo = w[2]
    /\ apiRateUsed = 1
    /\ apiRateRemaining = 0
    /\ pc = "GetPullRequests"
    /\ page = 0
    /\ allPRs = <<>>
    /\ idx = 0
    /\ reviewsRaw = <<>>
    /\ comments = <<>>
    /\ commits = <<>>
    /\ cidx = 0
    /\ errs = <<>>
    /\ metrics = EmptyMap
    /\ ret = NoResult
    /\ calls = <<>>
    /\ fin = <<>>
    /\ fout = <<>>

NextPRs == \E o \in Outcomes(quota) : FetchPage(o)

SpecPRs == InitPRs /\ [][NextPRs]_vars

----------------------------------------------------------------------------
(* The functions on their own: fin is the input, fout the result *)

\* no run of CalculateMetrics is going on
NoRun ==
    /\ feed = <<>>
    /\ quota = 0
    /\ dateFrom = 0
    /\ dateTo = 0
    /\ apiRateUsed = 0
    /\ apiRateRemaining = 0
    /\ page = 0
    /\ allPRs = <<>>
    /\ idx = 0
    /\ reviewsRaw = <<>>
    /\ comments = <<>>
    /\ commits = <<>>
    /\ cidx = 0
    /\ errs = <<>>
    /\ metrics = EmptyMap
    /\ ret = NoResult
    /\ calls = <<>>

runVars == <<feed, quota, dateFrom, dateTo, apiRateUsed, apiRateRemaining, page, allPRs,
             idx, reviewsRaw, comments, commits, cidx, errs, metrics, ret, calls>>

\* filterPullRequests on one page, sorted by createdAt descending
InitFilter ==
    /\ NoRun
    /\ pc = "filterPullRequests"
    /\ \E prs \in FeedsOf({"contributor1"}, MaxPageLen), w \in Windows :
           fin = [prs |-> prs, dateFrom |-> w[1], dateTo |-> w[2]]
    /\ fout = <<>>

CallFilter ==
    /\ pc = "filterPullRequests"
    /\ fout' = filterPullRequests(fin.prs, fin.dateFrom, fin.dateTo)
    /\ pc' = "filtered"
    /\ UNCHANGED <<runVars, fin>>

SpecFilter == InitFilter /\ [][CallFilter]_vars

\* the instants of comments and submissions
PeriodTimes == {0, 3, 4, 30, 34, 65}
\* comments of one review
MaxPeriodComments == 3

\* CalculateTotalCommentPeriodLength on the comments of one review, in any order
InitPeriod ==
    /\ NoRun
    /\ pc = "CalculateTotalCommentPeriodLength"
    /\ \E ts \in SeqsUpTo(PeriodTimes, MaxPeriodComments), sub \in PeriodTimes :
           fin = [reviewComments |-> [i \in DOMAIN ts |->
                                         [PullRequestReviewID |-> 1, UserID |-> 11, Path |-> 1,
                                          OriginalPosition |-> 10, CreatedAt |-> ts[i]]],
                  reviewSubmittedAt |-> sub]
    /\ fout = <<>>

CallPeriod ==
    /\ pc = "CalculateTotalCommentPeriodLength"
    /\ fout' = CalculateTotalCommentPeriodLength(fin.reviewComments, fin.reviewSubmittedAt)
    /\ pc' = "measured"
    /\ UNCHANGED <<runVars, fin>>

SpecPeriod == InitPeriod /\ [][CallPeriod]_vars

\* "@@ -100,7 +100,9 @@"
Patch100 == <<"@", "@", " ", "-", "1", "0", "0", ",", "7", " ", "+", "1", "0", "0", ",", "9", " ", "@", "@">>

\* comments and commits of one pull request, files of one commit
MaxAttrComments == 2
MaxAttrCommits == 2
MaxAttrFiles == 1

AttrTimes == {5, 20}

AttrComments ==
    SeqsUpTo([PullRequestReviewID : {1}, UserID : {11}, Path : {1},
              OriginalPosition : {1, 10}, CreatedAt : AttrTimes], MaxAttrComments)

AttrCommits ==
    SeqsUpTo([CreatedAt : AttrTimes,
              Files : SeqsUpTo([Filename : Addrs, Patch : {<<>>, Patch10, Patch100}],
                               MaxAttrFiles)], MaxAttrCommits)

\* the count of the comments leading to changes, on any comments and commits
InitAttribution ==
    /\ NoRun
    /\ pc = "commentsLeadingToChanges"
    /\ \E cs \in AttrComments, cms \in AttrCommits : fin = [comments |-> cs, commits |-> cms]
    /\ fout = <<>>

CallAttribution ==
    /\ pc = "commentsLeadingToChanges"
    /\ fout' = commentsLeadingToChanges(fin.comments, fin.commits)
    /\ pc' = "counted"
    /\ UNCHANGED <<runVars, fin>>

SpecAttribution == InitAttribution /\ [][CallAttribution]_vars

\* reviews of one fetched list
MaxGroupReviews == 3

\* the review lists ListReviews may give: review i has ID i, and a review is
\* submitted or not
GroupReviewLists ==
    {[i \in DOMAIN s |-> [ID |-> i, UserID |-> UserIdOf(s[i][1]), UserLogin |-> s[i][1],
                          SubmittedAt |-> s[i][2]]] :
        s \in SeqsUpTo(Logins \X ({<<>>} \cup {<<t>> : t \in ReviewTimes}), MaxGroupReviews)}

\* newPullRequestReviewSlice and getUserReviews on any fetched review list
InitGrouping ==
    /\ NoRun
    /\ pc = "getUserReviews"
    /\ \E raw \in GroupReviewLists : fin = [reviews |-> raw]
    /\ fout = <<>>

\* the conversion, then the grouping: a nil element of the converted slice
\* stops getUserReviews with a nil pointer dereference, and nothing is returned
CallGrouping ==
    /\ pc = "getUserReviews"
    /\ LET reviews == newPullRequestReviewSlice(fin.reviews)
       IN  IF getUserReviewsPanics(reviews)
           THEN /\ fout' = [reviews |-> reviews]
                /\ pc' = "panic"
           ELSE /\ fout' = [reviews |-> reviews, userReviews |-> getUserReviews(reviews)]
                /\ pc' = "grouped"
    /\ UNCHANGED <<runVars, fin>>

SpecGrouping == InitGrouping /\ [][CallGrouping]_vars

\* API calls of one client
MaxRateCalls == 20
\* the remaining quota a response reports is 0..MaxRemaining
MaxRemaining == 3

\* the responses of an API call: nil, or one that reports a remaining quota
Responses == {<<>>} \cup {<<[Remaining |-> r]>> : r \in 0..MaxRemaining}

\* a client as NewGitHubClient leaves it
InitRate ==
    /\ feed = <<>>
    /\ quota = 0
    /\ dateFrom = 0
    /\ dateTo = 0
    /\ apiRateUsed = 1
    /\ apiRateRemaining = 0
    /\ pc = "verifyRateLimit"
    /\ page = 0
    /\ allPRs = <<>>
    /\ idx = 0
    /\ reviewsRaw = <<>>
    /\ comments = <<>>
    /\ commits = <<>>
    /\ cidx = 0
    /\ errs = <<>>
    /\ metrics = EmptyMap
    /\ ret = NoResult
    /\ calls = <<>>
    /\ fin = <<>>
    /\ fout = <<>>

\* one API call of any operation and the verifyRateLimit that follows it:
\* fin is the response, fout the error verifyRateLimit returns
CallVerifyRateLimit(resp) ==
    /\ pc = "verifyRateLimit"
    /\ apiRateUsed < MaxRateCalls
    /\ LET v == verifyRateLimit(apiRateUsed, apiRateRemaining, resp)
       IN  /\ apiRateUsed' = v.apiRateUsed
           /\ apiRateRemaining' = v.apiRateRemaining
           /\ fin' = resp
           /\ fout' = IF v.panic THEN <<>> ELSE [err |-> v.err]
           /\ pc' = IF v.panic THEN "panic" ELSE "verifyRateLimit"
    /\ UNCHANGED <<feed, quota, dateFrom, dateTo, page, allPRs, idx, reviewsRaw, comments,
                   commits, cidx, errs, metrics, ret, calls>>

NextRate == \E resp \in Responses : CallVerifyRateLimit(resp)

SpecRate == InitRate /\ [][NextRate]_vars

----------------------------------------------------------------------------
(* Properties *)

InWindow(pr, from, to) == from <= pr.CreatedAt /\ pr.CreatedAt <= to

\* C5: for a page sorted by createdAt descending and dateFrom <= dateTo,
\* filterPullRequests returns exactly the pull requests with
\* dateFrom <= createdAt <= dateTo in page order, found is true iff that
\* slice is not empty, and foundBeforeDateFrom is true iff some pull request
\* of the page was created strictly before dateFrom.
C5_FilterExact ==
    pc = "filtered" =>
        /\ fout.result = SelectSeq(fin.prs, LAMBDA pr : InWindow(pr, fin.dateFrom, fin.dateTo))
        /\ fout.found = (Len(fout.result) > 0)
        /\ fout.foundBeforeDateFrom =
               (\E i \in DOMAIN fin.prs : fin.prs[i].CreatedAt < fin.dateFrom)

\* a page with a pull request newer than dateTo, one exactly at dateTo, which
\* is dateFrom as well, and one older than dateFrom
C5_Witness ==
    /\ pc = "filtered"
    /\ Len(fin.prs) = 3
    /\ fin.dateFrom = fin.dateTo
    /\ fin.prs[1].CreatedAt > fin.dateTo
    /\ fin.prs[2].CreatedAt = fin.dateTo
    /\ fin.prs[3].CreatedAt < fin.dateFrom
    /\ Len(fout.result) = 1
    /\ fout.foundBeforeDateFrom

\* GetPullRequests has returned its list without an error
PullRequestsReturned == pc = "GetReviews" \/ (pc = "done" /\ Len(ret.errs) = 0)

\* C6: over a feed sorted by createdAt descending across its pages, with no
\* call failing, GetPullRequests returns every pull request of the feed with
\* dateFrom <= createdAt <= dateTo exactly once, none outside the window,
\* in the order of the feed.
C6_AllInWindow ==
    PullRequestsReturned =>
        allPRs = SelectSeq(feed, LAMBDA pr : InWindow(pr, dateFrom, dateTo))

\* the first page held only pull requests newer than dateTo, and the later
\* pages gave two pull requests of the window
C6_Witness ==
    /\ PullRequestsReturned
    /\ page >= 2
    /\ Len(allPRs) >= 2
    /\ \A i \in DOMAIN PageOf(feed, 1) : PageOf(feed, 1)[i].CreatedAt > dateTo

\* C7: after a page that holds a pull request created strictly before
\* dateFrom, or whose response reports no next page, GetPullRequests asks
\* for no further page; after any other page it asks for the reported next
\* page, which is a later page of the feed, so the loop ends on a finite feed.
C7_PaginationStops ==
    [][(/\ pc = "GetPullRequests"
        /\ pc' # "panic"
        /\ ~(pc' = "done" /\ Len(ret'.errs) > 0))
       => LET prs == PageOf(feed, page)
              nextPage == NextPageOf(feed, page)
              stop == nextPage = 0 \/ \E i \in DOMAIN prs : prs[i].CreatedAt < dateFrom
          IN  IF stop
              THEN pc' # "GetPullRequests"
              ELSE /\ pc' = "GetPullRequests"
                   /\ page' = nextPage
                   /\ page' > page
                   /\ page' <= NumPages(feed)]_vars

\* the loop went on after the first page and ended on a page that reported a
\* next page
C7_Witness ==
    /\ pc = "GetReviews"
    /\ page >= 2
    /\ NextPageOf(feed, page) # 0

\* the gap between instant t of T and the instant of T before it, when that
\* gap is at most 30 minutes; 0 otherwise
ShortGap(T, t) ==
    LET before == {u \in T : u < t}
    IN  IF before = {} THEN 0
        ELSE LET p == CHOOSE u \in before : \A w \in before : w <= u
             IN  IF t - p <= 30 THEN t - p ELSE 0

RECURSIVE ShortGaps(_, _)
ShortGaps(T, R) ==
    IF R = {} THEN 0
    ELSE LET t == CHOOSE y \in R : TRUE IN ShortGap(T, t) + ShortGaps(T, R \ {t})

\* the sum of (last - first) over the maximal runs of the instants T in which
\* every gap between neighbours is at most 30 minutes
SessionSum(T) == ShortGaps(T, T)

\* C9: for every list of comments, in any order, and every submission time,
\* CalculateTotalCommentPeriodLength returns max(3 minutes, S), S being the
\* sum of (last - first) over the maximal runs of the sorted instants
\* {submittedAt} and all createdAt with gaps of at most 30 minutes.
C9_PeriodLength ==
    pc = "measured" =>
        LET T == {fin.reviewSubmittedAt} \cup
                 {fin.reviewComments[i].CreatedAt : i \in DOMAIN fin.reviewComments}
            S == SessionSum(T)
        IN  fout = IF S >= 3 THEN S ELSE 3

\* three comments out of order, a gap of more than 30 minutes left out and a
\* gap of exactly 30 minutes counted: 0, 4, 34 and 65 give 34 minutes
C9_Witness ==
    /\ pc = "measured"
    /\ Len(fin.reviewComments) = 3
    /\ fin.reviewComments[1].CreatedAt = 65
    /\ fin.reviewComments[2].CreatedAt = 0
    /\ fin.reviewComments[3].CreatedAt = 34
    /\ fin.reviewSubmittedAt = 4
    /\ fout = 34

\* C1: once the response of an API call has reported remaining = 0, the run
\* makes no further API call; a paginated GetPullRequests asks for no page
\* after the page whose response reported remaining = 0.
C1_NoCallAfterExhaustion ==
    [][(apiRateUsed > 1 /\ apiRateRemaining = 0 /\ pc # "panic")
       => apiRateUsed' = apiRateUsed]_vars

\* C2: when a data-source operation reports an error, it is the last
\* operation of the run, CalculateMetrics returns a nil map and a non-empty
\* error list that holds the reported errors; when none reports an error, the
\* error list is empty and the map is not nil.
C2_OneMeaningfulResult ==
    pc = "done" =>
        LET failed == {i \in DOMAIN calls : Len(calls[i].errs) > 0}
        IN  IF failed = {}
            THEN Len(ret.errs) = 0 /\ ~ret.isNil
            ELSE /\ failed = {Len(calls)}
                 /\ ret.isNil
                 /\ Len(ret.errs) > 0
                 /\ Range(calls[Len(calls)].errs) \subseteq Range(ret.errs)

\* GetCommits failed for the second pull request: the sums of the first are
\* not returned
C2_Witness ==
    /\ pc = "done"
    /\ ret.isNil
    /\ Len(ret.errs) > 0
    /\ DOMAIN metrics # {}
    /\ calls[Len(calls)].op = "GetCommits"
    /\ calls[Len(calls)].pr = allPRs[2].Number

\* one pull request by contributor1, one submitted review by reviewer1 with
\* one comment, and one commit created after the comment with a file of the
\* comment's file name whose patch has a hunk header at the comment's position
C3_Scenario ==
    /\ pc = "Accumulate"
    /\ Len(allPRs) = 1
    /\ allPRs[1].UserLogin = "contributor1"
    /\ Len(reviewsRaw) = 1
    /\ reviewsRaw[1][1].UserLogin = "reviewer1"
    /\ Len(comments) = 1
    /\ comments[1].PullRequestReviewID = reviewsRaw[1][1].ID
    /\ comments[1].UserID = reviewsRaw[1][1].UserID
    /\ Len(commits) = 1
    /\ commits[1].CreatedAt > comments[1].CreatedAt
    /\ Len(commits[1].Files) = 1
    /\ Heap[commits[1].Files[1].Filename] = Heap[comments[1].Path]
    /\ SubSeq(commits[1].Files[1].Patch, 1, 7) =
           <<"@", "@", " ", "-">> \o Itoa(comments[1].OriginalPosition) \o <<",">>

\* C3: in that scenario CalculateMetrics returns for reviewer1 prsReviewed = 1,
\* totalComments = 1, averageTimeToFirstReview = submittedAt - createdAt of
\* the pull request, and percentageCommentsLeadingToChanges = 100.
C3_EndToEnd ==
    [][C3_Scenario =>
        /\ pc' = "done"
        /\ ~ret'.isNil
        /\ "reviewer1" \in DOMAIN ret'.metrics
        /\ ret'.metrics["reviewer1"].PRsReviewed = 1
        /\ ret'.metrics["reviewer1"].TotalComments = 1
        /\ ret'.metrics["reviewer1"].AverageTimeToFirstReview =
               reviewsRaw[1][1].SubmittedAt[1] - allPRs[1].CreatedAt
        /\ ret'.metrics["reviewer1"].PercentageCommentsLeadingToChanges = Float(100)]_vars

\* a submitted review of the fetched list by login u
HasSubmittedReview(reviews, u) ==
    \E i \in DOMAIN reviews :
        Len(reviews[i]) # 0 /\ Len(reviews[i][1].SubmittedAt) # 0 /\ reviews[i][1].UserLogin = u

\* C4: the accumulation of a pull request leaves its author's own metrics as
\* they were, gives the result it gives without the author's reviews, and
\* gives an entry only to a login with a submitted review on a pull request
\* of another author.
C4_NoSelfReview ==
    [][pc = "Accumulate" =>
        LET pr == allPRs[idx]
            author == pr.UserLogin
            byOthers == SelectSeq(reviewsRaw, LAMBDA r : r[1].UserLogin # author)
        IN  /\ metrics' = AccumulatePR(metrics, pr, byOthers, comments, commits)
            /\ author \in DOMAIN metrics' => author \in DOMAIN metrics
            /\ author \in DOMAIN metrics => metrics'[author] = metrics[author]
            /\ \A u \in (DOMAIN metrics') \ (DOMAIN metrics) :
                   u # author /\ HasSubmittedReview(reviewsRaw, u)
            /\ pc' = "done" => DOMAIN ret'.metrics = DOMAIN metrics']_vars

\* the second pull request is about to be accumulated: its author has
\* reviewed it, with a comment, and has metrics from the first pull request
C4_Witness ==
    /\ pc = "Accumulate"
    /\ idx = 2
    /\ HasSubmittedReview(reviewsRaw, allPRs[2].UserLogin)
    /\ allPRs[2].UserLogin \in DOMAIN metrics
    /\ \E i \in DOMAIN comments : comments[i].UserID = UserIdOf(allPRs[2].UserLogin)

\* a comment that the claim counts: some commit created strictly after it
\* has a file of the comment's file name whose patch contains "@@ -N"
LeadsToChange(c, cms) ==
    \E j \in DOMAIN cms :
        /\ cms[j].CreatedAt > c.CreatedAt
        /\ \E k \in DOMAIN cms[j].Files :
               /\ Heap[cms[j].Files[k].Filename] = Heap[c.Path]
               /\ Contains(cms[j].Files[k].Patch,
                           <<"@", "@", " ", "-">> \o Itoa(c.OriginalPosition))

\* C8: a comment is counted as leading to a change exactly when some commit
\* created strictly after it has a file with the comment's file name (equal
\* text) whose patch contains "@@ -N", N the comment's original position.
C8_ChangeAttribution ==
    pc = "counted" =>
        fout = Cardinality({i \in DOMAIN fin.comments :
                               LeadsToChange(fin.comments[i], fin.commits)})

\* C10: for every contributor of the result with totalComments > 0,
\* percentageCommentsLeadingToChanges = changeCount / totalComments * 100,
\* changeCount being the contributor's value at the end of the loop over the
\* pull requests.
C10_Percentage ==
    (pc = "done" /\ ~ret.isNil) =>
        \A u \in DOMAIN ret.metrics :
            ret.metrics[u].TotalComments > 0 =>
                ret.metrics[u].PercentageCommentsLeadingToChanges =
                    FMul(FDiv(metrics[u].PercentageCommentsLeadingToChanges,
                              Float(metrics[u].TotalComments)), Float(100))

\* the logins with a submitted review in the list that GetReviews returned
\* for pull request number n, as the call log holds it
ReviewersOf(n) ==
    {u \in Logins : \E i \in DOMAIN calls :
        /\ calls[i].op = "GetReviews"
        /\ calls[i].pr = n
        /\ \E j \in DOMAIN calls[i].result :
               /\ Len(calls[i].result[j]) # 0
               /\ calls[i].result[j][1].UserLogin = u}

\* the pull requests of the feed inside the window that u did not write and
\* has a submitted review on
ReviewedBy(u) ==
    {i \in DOMAIN feed :
        /\ InWindow(feed[i], dateFrom, dateTo)
        /\ feed[i].UserLogin # u
        /\ u \in ReviewersOf(feed[i].Number)}

\* C11: after a successful run, prsReviewed of every login L is the number of
\* pull requests inside the window, not written by L, on which L has at
\* least one submitted review (a login without an entry counts 0); several
\* submitted reviews by L on one pull request count once.
C11_PRsReviewedOncePerPR ==
    (pc = "done" /\ ~ret.isNil) =>
        \A u \in Logins :
            IF u \in DOMAIN ret.metrics
            THEN ret.metrics[u].PRsReviewed = Cardinality(ReviewedBy(u))
            ELSE ReviewedBy(u) = {}

\* a successful run over two pull requests of the window: reviewer1 has two
\* submitted reviews on one of them and none on the other
C11_Witness ==
    /\ pc = "done"
    /\ ~ret.isNil
    /\ Len(allPRs) = 2
    /\ "reviewer1" \in DOMAIN ret.metrics
    /\ ret.metrics["reviewer1"].PRsReviewed = 1
    /\ \E i \in DOMAIN calls :
           /\ calls[i].op = "GetReviews"
           /\ Len(calls[i].result) = 2
           /\ \A j \in 1..2 : /\ Len(calls[i].result[j]) # 0
                                /\ calls[i].result[j][1].UserLogin = "reviewer1"

\* the submitted reviews of login u in the fetched list, in fetch order, as
\* values of GitClient
SubmittedBy(raw, u) ==
    LET mine == SelectSeq(raw, LAMBDA r : Len(r.SubmittedAt) # 0 /\ r.UserLogin = u)
    IN  [i \in DOMAIN mine |-> [ID |-> mine[i].ID, UserID |-> mine[i].UserID,
                                 UserLogin |-> mine[i].UserLogin,
                                 SubmittedAt |-> mine[i].SubmittedAt]]

\* C12: for every fetched review list, conversion and grouping complete
\* without failure, every submitted review is in the group of its author's
\* login in fetch order, and a review without submittedAt is in no group.
C12_UnsubmittedDropped ==
    pc \in {"grouped", "panic"} =>
        /\ pc = "grouped"
        /\ DOMAIN fout.userReviews = {u \in Logins : Len(SubmittedBy(fin.reviews, u)) > 0}
        /\ \A u \in DOMAIN fout.userReviews :
               fout.userReviews[u] = SubmittedBy(fin.reviews, u)

\* the calls of operation op for pull request number n, as indices of the log
CallsOf(op, n) == {k \in DOMAIN calls : calls[k].op = op /\ calls[k].pr = n}

\* C13: CalculateMetrics calls GetCommits only for the pull request it is
\* processing, only when GetComments returned at least one comment for it,
\* with the createdAt of the first comment of that list as since-timestamp
\* and file detail enabled, and not a second time; when the accumulation of
\* a pull request starts, GetCommits has been called for it exactly once if
\* it has comments, and never if it has none.
C13_CommitsIffComments ==
    [][/\ (Len(calls') > Len(calls) /\ calls'[Len(calls')].op = "GetCommits") =>
              /\ Len(comments) > 0
              /\ calls'[Len(calls')].pr = allPRs[idx].Number
              /\ calls'[Len(calls')].since = comments[1].CreatedAt
              /\ calls'[Len(calls')].includeFiles
              /\ CallsOf("GetCommits", allPRs[idx].Number) = {}
       /\ pc = "Accumulate" =>
              /\ \A i \in DOMAIN allPRs :
                     Cardinality(CallsOf("GetCommits", allPRs[i].Number)) <= 1
              /\ (Len(comments) > 0) <=> (CallsOf("GetCommits", allPRs[idx].Number) # {})]_vars

\* the second pull request is about to be accumulated: it has two comments,
\* the later one first in the list, and GetCommits was called for it with
\* that comment's createdAt; the first pull request had no call of GetCommits
C13_Witness ==
    /\ pc = "Accumulate"
    /\ idx = 2
    /\ Len(comments) = 2
    /\ comments[1].CreatedAt > comments[2].CreatedAt
    /\ \E k \in CallsOf("GetCommits", allPRs[2].Number) :
           calls[k].since = comments[1].CreatedAt
    /\ CallsOf("GetCommits", allPRs[1].Number) = {}

\* C14: every API call raises the call count by exactly one, so that it
\* never decreases; after an API call that got a response the remaining
\* counter is the remaining quota of that response, and verifyRateLimit
\* returns an error iff that remaining quota is 0.
C14_RateCounters ==
    [][/\ apiRateUsed' = apiRateUsed + 1
       /\ Len(fin') # 0 =>
              /\ apiRateRemaining' = fin'[1].Remaining
              /\ fout'.err <=> (fin'[1].Remaining = 0)]_vars

\* the third call of the operations was counted, its response reported a
\* remaining quota of 0, and verifyRateLimit returned the error
C14_Witness ==
    /\ pc = "verifyRateLimit"
    /\ apiRateUsed = 4
    /\ Len(fin) # 0
    /\ fin[1].Remaining = 0
    /\ apiRateRemaining = 0
    /\ fout.err

\* C15: a failed call of GetCommits, the commit-list call or a per-commit
\* detail call, does not stop the operation: the error is added to the error
\* list and GetCommits goes on to its next call or returns, and the list it
\* returns holds the errors of the failed calls.
C15_NoAbortOnFailure ==
    [][(pc \in {"GetCommits", "GetCommitDetail"} /\ Len(errs') > Len(errs)) =>
          /\ pc' # "panic"
          /\ pc' = "done" => ret'.errs = errs']_vars

\* the removed-side starting line of some hunk header of patch is n: the
\* digits after "@@ -" are those of n, and no digit follows them
HunkStartsAt(patch, n) ==
    LET h == HunkPrefix(n)
    IN  \E i \in 0..(Len(patch) - Len(h)) :
            /\ SubSeq(patch, i + 1, i + Len(h)) = h
            /\ i + Len(h) < Len(patch) => patch[i + Len(h) + 1] \notin Range(DigitChars)

\* C16: for a comment and a commit created after it, the pairs the count
\* of the comments leading to changes tests, isCommentAddressedByCommit
\* returns true only if the commit has a file whose name is the comment's
\* path and whose patch is not empty and has a hunk header whose removed-side
\* starting line is the comment's original position.
C16_ExactHunkStart ==
    pc = "counted" =>
        \A i \in DOMAIN fin.comments : \A j \in DOMAIN fin.commits :
            (/\ fin.commits[j].CreatedAt > fin.comments[i].CreatedAt
             /\ isCommentAddressedByCommit(fin.comments[i], fin.commits[j])) =>
                \E k \in DOMAIN fin.commits[j].Files :
                    /\ Heap[fin.commits[j].Files[k].Filename] = Heap[fin.comments[i].Path]
                    /\ fin.commits[j].Files[k].Patch # <<>>
                    /\ HunkStartsAt(fin.commits[j].Files[k].Patch,
                                    fin.comments[i].OriginalPosition)

\* the index in allPRs of the pull request with number n; 0 if there is none
IndexOfPR(n) ==
    IF \E i \in DOMAIN allPRs : allPRs[i].Number = n
    THEN CHOOSE i \in DOMAIN allPRs : allPRs[i].Number = n
    ELSE 0

\* the call log is in the order of the claim: GetPullRequests first and only
\* once; then, for the pull requests in the order GetPullRequests returned
\* them, GetReviews, then GetComments, then GetCommits if it is called, each
\* at most once, with no call for a pull request after a call for a later one
OrderedCalls ==
    \A k \in DOMAIN calls :
        LET c == calls[k]
        IN  /\ (c.op = "GetPullRequests") <=> (k = 1)
            /\ c.op = "GetReviews" =>
                   /\ IndexOfPR(c.pr) # 0
                   /\ k = 2 => IndexOfPR(c.pr) = 1
                   /\ k > 2 => /\ calls[k - 1].op \in {"GetComments", "GetCommits"}
                                /\ IndexOfPR(c.pr) = IndexOfPR(calls[k - 1].pr) + 1
            /\ c.op = "GetComments" =>
                   calls[k - 1].op = "GetReviews" /\ calls[k - 1].pr = c.pr
            /\ c.op = "GetCommits" =>
                   calls[k - 1].op = "GetComments" /\ calls[k - 1].pr = c.pr

\* C17: the log of the data-source calls is always in that order; a call is
\* made for the pull request the loop is at, never during its accumulation;
\* the accumulation of a pull request starts after its last call, makes no
\* call, and is over before the loop moves to the next pull request.
C17_SequentialCalls ==
    [][/\ OrderedCalls'
       /\ (Len(calls') > Len(calls) /\ calls'[Len(calls')].op # "GetPullRequests") =>
              /\ pc # "Accumulate"
              /\ calls'[Len(calls')].pr = allPRs[idx].Number
       /\ pc = "Accumulate" =>
              /\ calls' = calls
              /\ calls[Len(calls)].pr = allPRs[idx].Number
              /\ idx' # idx => (idx' = idx + 1 /\ pc' = "GetReviews")
       /\ idx' # idx => (pc = "Accumulate" \/ pc = "GetPullRequests")]_vars

\* a successful run over two pull requests: GetCommits was called for the
\* first and not for the second
C17_Witness ==
    /\ pc = "done"
    /\ ~ret.isNil
    /\ Len(allPRs) = 2
    /\ Len(calls) = 6
    /\ calls[4].op = "GetCommits"
    /\ calls[4].pr = allPRs[1].Number
    /\ calls[6].op = "GetComments"
    /\ calls[6].pr = allPRs[2].Number

\* C18: the since-timestamp CalculateMetrics gave GetCommits for a pull
\* request is not later than the createdAt of any comment of that pull
\* request, whatever the order of the comments.
C18_SinceNotAfterAnyComment ==
    pc \in {"GetCommitDetail", "Accumulate"} =>
        \A k \in CallsOf("GetCommits", allPRs[idx].Number) :
            \A i \in DOMAIN comments : calls[k].since <= comments[i].CreatedAt

====
